---- MODULE Spec2Model ----
(***************************************************************************)
(* Model of RustyXML's ElementBuilder (src/xml/element_builder.rs): the    *)
(* DOM builder that turns a stream of parser events into Element trees.    *)
(*                                                                         *)
(* Option<T> is modelled as a sequence of length 0 (None) or 1 (Some(v)).  *)
(* HashMap<K, V> is modelled as a function whose domain is the key set.    *)
(* Iteration over a HashMap has no fixed order, so the attribute scan of   *)
(* an element start takes the scan order as a nondeterministic input.      *)
(***************************************************************************)
EXTENDS Integers, Sequences, FiniteSets, TLC

----------------------------------------------------------------------------
(* Bounds of the model *)

\* number of operations (push_event, define_prefix, set_default_ns) per run
MaxOps == 4
\* number of simultaneously open elements
MaxDepth == 2
\* number of PI / Characters / CDATA / Comment events per run
MaxText == 1
\* number of define_prefix / set_default_ns calls per run
MaxConfig == 2

----------------------------------------------------------------------------
(* Values *)

None == << >>
Some(v) == << v >>

XML_NS == "http://www.w3.org/XML/1998/namespace"
XMLNS_NS == "http://www.w3.org/2000/xmlns/"

\* (name, ns) pairs of the element starts the driver feeds
StartTags == { <<"a", None>>, <<"b", None>> }
\* (name, ns) pairs of the element ends the driver feeds
EndTags == { <<"a", None>>, <<"b", None>>, <<"a", Some("urn:x")>> }

EmptyMap == [k \in {} |-> ""]

\* attribute mappings (local name, namespace?) -> value of the element starts
AttrMaps ==
  { EmptyMap,
    [k \in { <<"xmlns", None>> } |-> "urn:x"],
    [k \in { <<"xmlns", None>> } |-> ""],
    [k \in { <<"p", Some(XMLNS_NS)>> } |-> "urn:y"],
    [k \in { <<"p", Some(XMLNS_NS)>>, <<"q", Some(XMLNS_NS)>> } |-> "urn:y"] }

\* contents of PI, Characters, CDATA and Comment events
Texts == { "t" }
\* upstream tokenizer failures
ParserErrors == { "perr" }
\* arguments of define_prefix
ConfigPrefixes == { "r" }
ConfigNamespaces == { "urn:y", XML_NS }
\* arguments of set_default_ns
ConfigDefaults == { "urn:d" }

\* all scan orders of a key set: the injective sequences over it
Orders(S) ==
  { s \in [1..Cardinality(S) -> S] :
      \A i, j \in 1..Cardinality(S) : i # j => s[i] # s[j] }

----------------------------------------------------------------------------
(* Results of push_event *)

OkNone == [tag |-> "OkNone", elem |-> None, err |-> ""]
OkSome(e) == [tag |-> "OkSome", elem |-> Some(e), err |-> ""]
ErrImproperNesting == [tag |-> "ErrImproperNesting", elem |-> None, err |-> ""]
\* variant: the upstream failure is reported as a nesting error
from_error_Nesting(err) == [tag |-> "ErrImproperNesting", elem |-> None, err |-> ""]

\* FromError<ParserError> for BuilderError
from_error(err) == [tag |-> "ErrParser", elem |-> None, err |-> err]
\* value of ret when the last operation returns nothing
Unit == [tag |-> "Unit", elem |-> None, err |-> ""]

----------------------------------------------------------------------------
(* Pieces of the operations *)

\* HashMap::insert
Insert(map, k, v) == [x \in (DOMAIN map) \cup {k} |-> IF x = k THEN v ELSE map[x]]

\* the table built by new()
NewPrefixes == Insert(Insert(EmptyMap, XML_NS, "xml"), XMLNS_NS, "xmlns")

\* Vec::pop, as used where the popped value is dropped
Pop(v) == IF v = << >> THEN v ELSE SubSeq(v, 1, Len(v) - 1)

\* Vec::last().unwrap_or(&None)
LastOrNone(v) == IF v = << >> THEN None ELSE v[Len(v)]

\* nodes of the tree (enum Xml)
ElementNode(e) == [kind |-> "ElementNode", elem |-> Some(e), text |-> ""]
TextNode(kind, t) == [kind |-> kind, elem |-> None, text |-> t]

\* variant: the node replaces the children instead of joining them
PushChild_Replace(stk, node) ==
  IF stk = << >> THEN stk
  ELSE [stk EXCEPT ![Len(stk)].children = << node >>]

\* variant: the node goes to the outermost open element
PushChild_Outermost(stk, node) ==
  IF stk = << >> THEN stk
  ELSE [stk EXCEPT ![1].children = Append(@, node)]

\* if let Some(elem) = self.stack.last_mut() { elem.children.push(node) }
PushChild(stk, node) ==
  IF stk = << >> THEN stk
  ELSE [stk EXCEPT ![Len(stk)].children = Append(@, node)]

\* variant: a new element starts with its parent's prefix table
SnapshotPrefixes_Inherit(stk, pfx) ==
  IF stk = << >> THEN pfx ELSE stk[Len(stk)].prefixes

\* the prefix table a new element starts with
SnapshotPrefixes(stk, pfx) == pfx

\* variant: an entry is pushed also onto an empty stack
InheritDefault_Always(dns) == Append(dns, LastOrNone(dns))

\* variant: a new scope starts with no default namespace
InheritDefault_Reset(dns) ==
  IF dns # << >> THEN Append(dns, None) ELSE dns

\* variant: no entry is pushed for the new scope
InheritDefault_NoPush(dns) == dns

\* the inherited entry pushed at an element start
InheritDefault(dns) ==
  IF dns # << >> THEN Append(dns, dns[Len(dns)]) ELSE dns

\* variant: a declared prefix is kept only if the namespace has none yet
ScanOne_KeepFirst(acc, key, value) ==
  IF key[2] = None /\ key[1] = "xmlns"
  THEN [acc EXCEPT !.default_ns =
          Append(Pop(@), IF Len(value) = 0 THEN None ELSE Some(value))]
  ELSE IF key[2] # None /\ key[2][1] = XMLNS_NS /\ value \notin DOMAIN acc.prefixes
       THEN [acc EXCEPT !.prefixes = Insert(@, value, key[1])]
       ELSE acc

\* variant: an unprefixed xmlns pushes its entry without popping the
\* inherited one
ScanOne_NoPop(acc, key, value) ==
  IF key[2] = None /\ key[1] = "xmlns"
  THEN [acc EXCEPT !.default_ns =
          Append(@, IF Len(value) = 0 THEN None ELSE Some(value))]
  ELSE IF key[2] # None /\ key[2][1] = XMLNS_NS
       THEN [acc EXCEPT !.prefixes = Insert(@, value, key[1])]
       ELSE acc

\* the body of the attribute loop for one attribute
ScanOne(acc, key, value) ==
  IF key[2] = None /\ key[1] = "xmlns"
  THEN [acc EXCEPT !.default_ns =
          Append(Pop(@), IF Len(value) = 0 THEN None ELSE Some(value))]
  ELSE IF key[2] # None /\ key[2][1] = XMLNS_NS
       THEN [acc EXCEPT !.prefixes = Insert(@, value, key[1])]
       ELSE acc

\* the attribute loop, scanning the keys in the given order
RECURSIVE ScanAttributes(_, _, _)
ScanAttributes(acc, attrs, order) ==
  IF order = << >> THEN acc
  ELSE ScanAttributes(ScanOne(acc, order[1], attrs[order[1]]), attrs, Tail(order))

\* variant: only the names are compared
Mismatch_NameOnly(elem, name, ns) == elem.name # name

\* elem.name != name || elem.ns != ns
Mismatch(elem, name, ns) == elem.name # name \/ elem.ns # ns

\* variant: the end of the outermost element reports no completed root
EndOutcome_NoRoot(stk, name, ns) ==
  LET elem == stk[Len(stk)]
      rest == Pop(stk)
  IN IF elem.name # name \/ elem.ns # ns
     THEN [stack |-> rest, ret |-> ErrImproperNesting]
     ELSE [stack |-> PushChild(rest, ElementNode(elem)), ret |-> OkNone]

\* variant: a mismatching end leaves the open element where it is
EndOutcome_KeepOnMismatch(stk, name, ns) ==
  LET elem == stk[Len(stk)]
      rest == Pop(stk)
  IN IF elem.name # name \/ elem.ns # ns
     THEN [stack |-> stk, ret |-> ErrImproperNesting]
     ELSE IF rest # << >>
          THEN [stack |-> PushChild(rest, ElementNode(elem)), ret |-> OkNone]
          ELSE [stack |-> rest, ret |-> OkSome(elem)]

\* what an element end does to a non-empty open-node stack, and its result
EndOutcome(stk, name, ns) ==
  LET elem == stk[Len(stk)]
      rest == Pop(stk)
  IN IF Mismatch(elem, name, ns)
     THEN [stack |-> rest, ret |-> ErrImproperNesting]
     ELSE IF rest # << >>
          THEN [stack |-> PushChild(rest, ElementNode(elem)), ret |-> OkNone]
          ELSE [stack |-> rest, ret |-> OkSome(elem)]

----------------------------------------------------------------------------
(* State *)

VARIABLES
  stack,        \* ElementBuilder.stack: the open elements, innermost last
  default_ns,   \* ElementBuilder.default_ns
  prefixes,     \* ElementBuilder.prefixes: namespace -> prefix
  ret,          \* what the last operation returned
  last,         \* the last operation and its arguments
  old,          \* the builder as it was before the last operation
  returned,     \* the roots returned so far, oldest first
  stale,        \* per open element: set_default_ns was called since its start
  wb,           \* monitor: are the events so far a well-balanced sequence
  expect,       \* monitor: the trees the events so far describe
  nkept,        \* number of PI / text / CDATA / comment events seen while
                \* an element was open
  failed,       \* per open element: Err(ImproperNesting) was returned since
                \* its start
  bases,        \* per open element: default_ns just before its start
  nops, ntext, nconfig

builder == <<stack, default_ns, prefixes>>
vars == <<stack, default_ns, prefixes, ret, last, old, returned, stale, wb,
          expect, nkept, failed, bases, nops, ntext, nconfig>>

Builder == [stack |-> stack, default_ns |-> default_ns, prefixes |-> prefixes]

\* a record of the last operation
Op(op, kind, name, ns, attributes, text) ==
  [op |-> op, kind |-> kind, name |-> name, ns |-> ns,
   attributes |-> attributes, text |-> text]

----------------------------------------------------------------------------
(* The monitor of well-balanced event sequences.  It follows the events    *)
(* only, never the builder: open is the sequence of (name, ns) of the      *)
(* starts not yet ended, root the outermost start, and phase is            *)
(*   "prefix"    the events so far are a proper prefix of a well-balanced  *)
(*               sequence with one outermost element,                      *)
(*   "complete"  the events so far are such a sequence, just ended,        *)
(*   "off"       neither.                                                  *)
(***************************************************************************)
WbInit == [phase |-> "prefix", open |-> << >>, root |-> None]
WbOff == [phase |-> "off", open |-> << >>, root |-> None]

WbStart(m, tag) ==
  IF m.phase # "prefix" THEN WbOff
  ELSE [m EXCEPT !.open = Append(@, tag),
                 !.root = IF m.open = << >> THEN Some(tag) ELSE @]

WbEnd(m, tag) ==
  IF m.phase # "prefix" \/ m.open = << >> THEN WbOff
  ELSE IF m.open[Len(m.open)] # tag THEN WbOff
  ELSE [m EXCEPT !.open = Pop(@),
                 !.phase = IF Len(m.open) = 1 THEN "complete" ELSE "prefix"]

WbOther(m) == IF m.phase # "prefix" THEN WbOff ELSE m

(***************************************************************************)
(* The monitor of the expected trees.  It follows the events only: x is    *)
(* the sequence of the elements the starts not yet ended describe, each    *)
(* with the nodes of the events seen directly inside it so far, in event   *)
(* order; after the end of the outermost element x holds that element      *)
(* alone.  Namespace resolution is none of its business: its elements      *)
(* have a name, a namespace, attributes and children only.  It is kept     *)
(* only while the events are well balanced.                                *)
(***************************************************************************)
ExpAdd(x, node) ==
  IF x = << >> THEN x
  ELSE [x EXCEPT ![Len(x)].children = Append(@, node)]

ExpStart(x, tag, attributes) ==
  Append(x, [name |-> tag[1], ns |-> tag[2], attributes |-> attributes,
             children |-> << >>])

ExpText(x, kind, t) == ExpAdd(x, [kind |-> kind, elem |-> << >>, text |-> t])

ExpEnd(x) ==
  IF Len(x) < 2 THEN x
  ELSE ExpAdd(SubSeq(x, 1, Len(x) - 1),
              [kind |-> "ElementNode", elem |-> << x[Len(x)] >>, text |-> ""])

ExpGate(m, x) == IF m.phase = "off" THEN << >> ELSE x

----------------------------------------------------------------------------
(* Operations *)

Init ==
  /\ stack = << >>
  /\ default_ns = << >>
  /\ prefixes = NewPrefixes
  /\ ret = Unit
  /\ last = Op("new", "", "", None, EmptyMap, "")
  /\ old = [stack |-> << >>, default_ns |-> << >>, prefixes |-> NewPrefixes]
  /\ returned = << >>
  /\ stale = << >>
  /\ wb = WbInit
  /\ expect = << >>
  /\ nkept = 0
  /\ failed = << >>
  /\ bases = << >>
  /\ nops = 0
  /\ ntext = 0
  /\ nconfig = 0

\* bookkeeping shared by all operations
Step(op) ==
  /\ nops < MaxOps
  /\ nops' = nops + 1
  /\ old' = Builder
  /\ last' = op

\* variant: the open elements share the builder's table
define_prefix_Shared ==
  \E prefix \in ConfigPrefixes, ns \in ConfigNamespaces :
    /\ nconfig < MaxConfig
    /\ Step(Op("define_prefix", "", prefix, Some(ns), EmptyMap, ""))
    /\ prefixes' = Insert(prefixes, ns, prefix)
    /\ stack' = [i \in 1..Len(stack) |->
                   [stack[i] EXCEPT !.prefixes = Insert(@, ns, prefix)]]
    /\ ret' = Unit
    /\ nconfig' = nconfig + 1
    /\ UNCHANGED <<default_ns, returned, stale, wb, expect, nkept, failed,
                   bases, ntext>>

define_prefix ==
  \E prefix \in ConfigPrefixes, ns \in ConfigNamespaces :
    /\ nconfig < MaxConfig
    /\ Step(Op("define_prefix", "", prefix, Some(ns), EmptyMap, ""))
    /\ prefixes' = Insert(prefixes, ns, prefix)
    /\ ret' = Unit
    /\ nconfig' = nconfig + 1
    /\ UNCHANGED <<stack, default_ns, returned, stale, wb, expect, nkept,
                   failed, bases, ntext>>

\* variant: only the innermost entry is replaced
set_default_ns_Top ==
  \E ns \in ConfigDefaults :
    /\ nconfig < MaxConfig
    /\ Step(Op("set_default_ns", "", "", Some(ns), EmptyMap, ""))
    /\ default_ns' = Append(Pop(default_ns), Some(ns))
    /\ ret' = Unit
    /\ nconfig' = nconfig + 1
    /\ stale' = [i \in 1..Len(stale) |-> TRUE]
    /\ UNCHANGED <<stack, prefixes, returned, wb, expect, nkept, failed,
                   bases, ntext>>

set_default_ns ==
  \E ns \in ConfigDefaults :
    /\ nconfig < MaxConfig
    /\ Step(Op("set_default_ns", "", "", Some(ns), EmptyMap, ""))
    /\ default_ns' = << Some(ns) >>
    /\ ret' = Unit
    /\ nconfig' = nconfig + 1
    /\ stale' = [i \in 1..Len(stale) |-> TRUE]
    /\ UNCHANGED <<stack, prefixes, returned, wb, expect, nkept, failed,
                   bases, ntext>>

\* push_event(Err(err))
PushErr ==
  \E err \in ParserErrors :
    /\ Step(Op("push_event", "Err", "", None, EmptyMap, err))
    /\ ret' = from_error(err)
    /\ wb' = WbOff
    /\ expect' = << >>
    /\ UNCHANGED <<stack, default_ns, prefixes, returned, stale, nkept, failed,
                   bases, ntext, nconfig>>

\* variant: content outside any element is reported as an error
PushText_NoElement(kind, node) ==
  \E t \in Texts :
    /\ ntext < MaxText
    /\ Step(Op("push_event", kind, "", None, EmptyMap, t))
    /\ stack' = PushChild(stack, TextNode(node, t))
    /\ ret' = IF stack = << >>
              THEN [tag |-> "ErrNoElement", elem |-> None, err |-> ""]
              ELSE OkNone
    /\ wb' = WbOther(wb)
    /\ expect' = ExpGate(wb', ExpText(expect, node, t))
    /\ nkept' = IF stack # << >> THEN nkept + 1 ELSE nkept
    /\ ntext' = ntext + 1
    /\ UNCHANGED <<default_ns, prefixes, returned, stale, failed, bases,
                   nconfig>>

\* push_event(Ok(PI | Characters | CDATA | Comment))
PushText(kind, node) ==
  \E t \in Texts :
    /\ ntext < MaxText
    /\ Step(Op("push_event", kind, "", None, EmptyMap, t))
    /\ stack' = PushChild(stack, TextNode(node, t))
    /\ ret' = OkNone
    /\ wb' = WbOther(wb)
    /\ expect' = ExpGate(wb', ExpText(expect, node, t))
    /\ nkept' = IF stack # << >> THEN nkept + 1 ELSE nkept
    /\ ntext' = ntext + 1
    /\ UNCHANGED <<default_ns, prefixes, returned, stale, failed, bases,
                   nconfig>>

PushPI == PushText("PI", "PINode")
PushCharacters == PushText("Characters", "CharacterNode")
PushCDATA == PushText("CDATA", "CDATANode")
PushComment == PushText("Comment", "CommentNode")

\* the element and the default-namespace stack an element start produces
StartElement(name, ns, attributes, order) ==
  LET acc == ScanAttributes(
               [default_ns |-> InheritDefault(default_ns),
                prefixes |-> SnapshotPrefixes(stack, prefixes)],
               attributes, order)
  IN [default_ns |-> acc.default_ns,
      elem |-> [name |-> name, ns |-> ns,
                default_ns |-> LastOrNone(acc.default_ns),
                prefixes |-> acc.prefixes,
                attributes |-> attributes,
                children |-> << >>]]

\* variant: the prefixes an element declares go to the builder's table too
PushElementStart_Leak ==
  \E tag \in StartTags, attributes \in AttrMaps :
    \E order \in Orders(DOMAIN attributes) :
      LET r == StartElement(tag[1], tag[2], attributes, order) IN
      /\ Len(stack) < MaxDepth
      /\ Step(Op("push_event", "ElementStart", tag[1], tag[2], attributes, ""))
      /\ default_ns' = r.default_ns
      /\ stack' = Append(stack, r.elem)
      /\ prefixes' = r.elem.prefixes
      /\ ret' = OkNone
      /\ stale' = Append(stale, FALSE)
      /\ wb' = WbStart(wb, tag)
      /\ expect' = ExpGate(wb', ExpStart(expect, tag, attributes))
      /\ failed' = Append(failed, FALSE)
      /\ bases' = Append(bases, default_ns)
      /\ UNCHANGED <<returned, nkept, ntext, nconfig>>

\* push_event(Ok(ElementStart))
PushElementStart ==
  \E tag \in StartTags, attributes \in AttrMaps :
    \E order \in Orders(DOMAIN attributes) :
      LET r == StartElement(tag[1], tag[2], attributes, order) IN
      /\ Len(stack) < MaxDepth
      /\ Step(Op("push_event", "ElementStart", tag[1], tag[2], attributes, ""))
      /\ default_ns' = r.default_ns
      /\ stack' = Append(stack, r.elem)
      /\ ret' = OkNone
      /\ stale' = Append(stale, FALSE)
      /\ wb' = WbStart(wb, tag)
      /\ expect' = ExpGate(wb', ExpStart(expect, tag, attributes))
      /\ failed' = Append(failed, FALSE)
      /\ bases' = Append(bases, default_ns)
      /\ UNCHANGED <<prefixes, returned, nkept, ntext, nconfig>>

\* variant: an end with no open element is ignored
PushElementEndEmpty_Ignored ==
  \E tag \in EndTags :
    /\ stack = << >>
    /\ Step(Op("push_event", "ElementEnd", tag[1], tag[2], EmptyMap, ""))
    /\ ret' = OkNone
    /\ wb' = WbEnd(wb, tag)
    /\ expect' = ExpGate(wb', expect)
    /\ UNCHANGED <<stack, default_ns, prefixes, returned, stale, nkept, failed,
                   bases, ntext, nconfig>>

\* push_event(Ok(ElementEnd)) with no open element
PushElementEndEmpty ==
  \E tag \in EndTags :
    /\ stack = << >>
    /\ Step(Op("push_event", "ElementEnd", tag[1], tag[2], EmptyMap, ""))
    /\ ret' = ErrImproperNesting
    /\ wb' = WbEnd(wb, tag)
    /\ expect' = ExpGate(wb', expect)
    /\ UNCHANGED <<stack, default_ns, prefixes, returned, stale, nkept, failed,
                   bases, ntext, nconfig>>

\* variant: the default-namespace stack is popped only when the end matches
PushElementEnd_PopOnMatch ==
  \E tag \in EndTags :
    LET r == EndOutcome(stack, tag[1], tag[2]) IN
    /\ stack # << >>
    /\ Step(Op("push_event", "ElementEnd", tag[1], tag[2], EmptyMap, ""))
    /\ default_ns' = IF r.ret = ErrImproperNesting THEN default_ns
                     ELSE Pop(default_ns)
    /\ stack' = r.stack
    /\ ret' = r.ret
    /\ returned' = IF r.ret.tag = "OkSome" THEN Append(returned, r.ret.elem[1])
                   ELSE returned
    /\ stale' = Pop(stale)
    /\ wb' = WbEnd(wb, tag)
    /\ expect' = ExpGate(wb', ExpEnd(expect))
    /\ failed' = IF r.ret = ErrImproperNesting
                 THEN [i \in 1..(Len(failed) - 1) |-> TRUE]
                 ELSE Pop(failed)
    /\ bases' = Pop(bases)
    /\ UNCHANGED <<prefixes, nkept, ntext, nconfig>>

\* push_event(Ok(ElementEnd)) with an open element
PushElementEnd ==
  \E tag \in EndTags :
    LET r == EndOutcome(stack, tag[1], tag[2]) IN
    /\ stack # << >>
    /\ Step(Op("push_event", "ElementEnd", tag[1], tag[2], EmptyMap, ""))
    /\ default_ns' = Pop(default_ns)
    /\ stack' = r.stack
    /\ ret' = r.ret
    /\ returned' = IF r.ret.tag = "OkSome" THEN Append(returned, r.ret.elem[1])
                   ELSE returned
    /\ stale' = Pop(stale)
    /\ wb' = WbEnd(wb, tag)
    /\ expect' = ExpGate(wb', ExpEnd(expect))
    /\ failed' = IF r.ret = ErrImproperNesting
                 THEN [i \in 1..(Len(failed) - 1) |-> TRUE]
                 ELSE Pop(failed)
    /\ bases' = Pop(bases)
    /\ UNCHANGED <<prefixes, nkept, ntext, nconfig>>

Next ==
  \/ define_prefix
  \/ set_default_ns
  \/ PushErr
  \/ PushPI
  \/ PushCharacters
  \/ PushCDATA
  \/ PushComment
  \/ PushElementStart
  \/ PushElementEndEmpty
  \/ PushElementEnd

Spec == Init /\ [][Next]_vars

----------------------------------------------------------------------------
(* Properties *)

\* the innermost open element before / after the last operation
OldTop == old.stack[Len(old.stack)]
Top == stack[Len(stack)]
XmlnsKey == <<"xmlns", None>>

\* C1: while the events fed to a fresh builder are a proper prefix of a
\* well-balanced sequence, every push_event returns Ok(None) and no root has
\* been returned; the end that completes the sequence returns Ok(Some(root)),
\* root bearing the name and namespace of the outermost start, and that is
\* the only root returned.
C1_WellBalanced ==
  /\ (last.op = "push_event" /\ wb.phase = "prefix") =>
        (ret = OkNone /\ returned = << >>)
  /\ (last.op = "push_event" /\ wb.phase = "complete") =>
        /\ ret.tag = "OkSome"
        /\ ret.elem[1].name = wb.root[1][1]
        /\ ret.elem[1].ns = wb.root[1][2]
        /\ returned = << ret.elem[1] >>

\* a nested well-balanced sequence has just completed
C1_Witness ==
  /\ last.op = "push_event"
  /\ wb.phase = "complete"
  /\ ret.tag = "OkSome"
  /\ \E i \in DOMAIN ret.elem[1].children :
        ret.elem[1].children[i].kind = "ElementNode"

\* C2 as stated: with push_event calls only, the two stacks have equal length
C2_Original == nconfig = 0 => Len(stack) = Len(default_ns)

\* C2 amended: with push_event calls only, default_ns is never longer than
\* stack; an element start pushes one element onto stack and one entry onto
\* default_ns, except that it pushes no entry when default_ns was empty and
\* the element has no unprefixed xmlns attribute; an element end with an open
\* element pops one element from stack and one entry from default_ns (none
\* when default_ns is empty), also when the end fails validation.
C2_Amended ==
  nconfig = 0 =>
    /\ Len(default_ns) <= Len(stack)
    /\ last.kind = "ElementStart" =>
         /\ Len(stack) = Len(old.stack) + 1
         /\ Len(default_ns) = Len(old.default_ns) +
              (IF old.default_ns # << >> \/ XmlnsKey \in DOMAIN last.attributes
               THEN 1 ELSE 0)
    /\ (last.kind = "ElementEnd" /\ old.stack # << >>) =>
         /\ Len(stack) = Len(old.stack) - 1
         /\ Len(default_ns) =
              (IF old.default_ns = << >> THEN 0 ELSE Len(old.default_ns) - 1)

\* an end that failed validation popped an entry from each stack
C2_Witness ==
  /\ nconfig = 0
  /\ last.kind = "ElementEnd"
  /\ ret = ErrImproperNesting
  /\ Len(old.stack) = 2
  /\ Len(old.default_ns) = 2
  /\ Len(stack) = 1
  /\ Len(default_ns) = 1

\* C3: an element end whose name or namespace differs from the innermost
\* open element's returns Err(ImproperNesting).
C3_MismatchIsError ==
  (/\ last.kind = "ElementEnd"
   /\ old.stack # << >>
   /\ (OldTop.name # last.name \/ OldTop.ns # last.ns))
  => ret = ErrImproperNesting

\* an end with the open element's name but another namespace was refused
C3_Witness ==
  /\ last.kind = "ElementEnd"
  /\ old.stack # << >>
  /\ OldTop.name = last.name
  /\ OldTop.ns # last.ns
  /\ ret = ErrImproperNesting

\* C4: an element end processed while the open-node stack is empty returns
\* Err(ImproperNesting).
C4_EndOnEmptyIsError ==
  (last.kind = "ElementEnd" /\ old.stack = << >>) => ret = ErrImproperNesting

\* an end right after a root was completed was refused
C4_Witness ==
  /\ last.kind = "ElementEnd"
  /\ old.stack = << >>
  /\ returned # << >>
  /\ ret = ErrImproperNesting

\* C5: push_event(Err(e)) returns Err(Parser(e)) and leaves stack, default_ns
\* and prefixes as they were.
C5_ParserErrorPassedThrough ==
  last.kind = "Err" =>
    /\ ret.tag = "ErrParser"
    /\ ret.err = last.text
    /\ stack = old.stack
    /\ default_ns = old.default_ns
    /\ prefixes = old.prefixes

\* an upstream failure arrived while elements were open
C5_Witness ==
  /\ last.kind = "Err"
  /\ ret.tag = "ErrParser"
  /\ Len(stack) = 2
  /\ default_ns # << >>

\* the attribute keys of the last element start that declare a prefix, and
\* the namespaces they declare a prefix for
DeclKeys == { key \in DOMAIN last.attributes : key[2] = Some(XMLNS_NS) }
Declared == { last.attributes[key] : key \in DeclKeys }
\* table t maps namespace u to prefix p
Maps(t, u, p) == u \in DOMAIN t /\ t[u] = p

\* C6 as stated: an element started without an unprefixed xmlns attribute
\* has the resolved default_ns of the innermost element open at its start
C6_Original ==
  (/\ last.kind = "ElementStart"
   /\ XmlnsKey \notin DOMAIN last.attributes
   /\ old.stack # << >>)
  => Top.default_ns = OldTop.default_ns

\* C6 amended: an element started without an unprefixed xmlns attribute has
\* the resolved default_ns of its parent, at every nesting depth, provided
\* set_default_ns was not called between the parent's start and its own.
C6_Amended ==
  (/\ last.kind = "ElementStart"
   /\ XmlnsKey \notin DOMAIN last.attributes
   /\ old.stack # << >>
   /\ ~stale[Len(old.stack)])
  => Top.default_ns = OldTop.default_ns

\* a child without xmlns took over the namespace its parent declared
C6_Witness ==
  /\ last.kind = "ElementStart"
  /\ XmlnsKey \notin DOMAIN last.attributes
  /\ Len(stack) = 2
  /\ ~stale[1]
  /\ stack[1].default_ns = Some("urn:x")
  /\ stack[2].default_ns = Some("urn:x")

\* C7: an element started with an unprefixed xmlns attribute of value v has
\* default_ns None if v is empty and Some(v) otherwise, whatever was
\* inherited or configured; the entries default_ns held before the start
\* are all still there, below the one entry of the new scope.
C7_XmlnsOverrides ==
  (last.kind = "ElementStart" /\ XmlnsKey \in DOMAIN last.attributes) =>
    LET v == last.attributes[XmlnsKey] IN
    /\ Top.default_ns = (IF v = "" THEN None ELSE Some(v))
    /\ default_ns = Append(old.default_ns, Top.default_ns)

\* xmlns="" on a child removed the default its parent declared, for the
\* child's scope only
C7_Witness ==
  /\ last.kind = "ElementStart"
  /\ XmlnsKey \in DOMAIN last.attributes
  /\ last.attributes[XmlnsKey] = ""
  /\ old.default_ns = << Some("urn:x") >>
  /\ default_ns = << Some("urn:x"), None >>
  /\ stack[2].default_ns = None

\* C8 as stated: a prefix declared on e by xmlns:p="urn:y" is in e's table
\* and in the table of every element started while e is open, and e's start
\* changes neither the elements started before it nor the persistent table
C8_Original ==
  last.kind = "ElementStart" =>
    /\ \A key \in DeclKeys : Maps(Top.prefixes, last.attributes[key], key[1])
    /\ \A i \in 1..Len(old.stack) :
         \A key \in DOMAIN old.stack[i].attributes :
           key[2] = Some(XMLNS_NS) =>
             Maps(Top.prefixes, old.stack[i].attributes[key], key[1])
    /\ SubSeq(stack, 1, Len(old.stack)) = old.stack
    /\ prefixes = old.prefixes

\* C8 amended: a prefix declared on e by xmlns:p="urn:y" is in scope for e
\* only.  e's table maps urn:y to p or, if e declares several prefixes for
\* urn:y, to one of them; for every other namespace e's table is the
\* persistent table as it is at e's start, so an element started while an
\* ancestor declaring a prefix is open does not get that prefix from the
\* ancestor; e's start changes neither the elements started before it nor
\* the persistent table.
C8_Amended ==
  last.kind = "ElementStart" =>
    /\ \A u \in Declared :
         \E key \in DeclKeys :
           last.attributes[key] = u /\ Maps(Top.prefixes, u, key[1])
    /\ DOMAIN Top.prefixes = (DOMAIN prefixes) \cup Declared
    /\ \A u \in (DOMAIN prefixes) \ Declared : Top.prefixes[u] = prefixes[u]
    /\ SubSeq(stack, 1, Len(old.stack)) = old.stack
    /\ prefixes = old.prefixes

\* an element started while its parent, which declared p for urn:y, is open
\* has no prefix for urn:y
C8_Witness ==
  /\ last.kind = "ElementStart"
  /\ Len(stack) = 2
  /\ <<"p", Some(XMLNS_NS)>> \in DOMAIN stack[1].attributes
  /\ Maps(stack[1].prefixes, "urn:y", "p")
  /\ "urn:y" \notin DOMAIN stack[2].prefixes

\* C9 as stated: every attribute xmlns:p="urn:y" of e puts urn:y -> p into
\* e's table, and no element created before e is changed by e's start
C9_Original ==
  last.kind = "ElementStart" =>
    /\ \A key \in DeclKeys : Maps(Top.prefixes, last.attributes[key], key[1])
    /\ SubSeq(stack, 1, Len(old.stack)) = old.stack

\* C9 amended: an attribute xmlns:p="urn:y" of e puts urn:y -> p into e's
\* table unless e has another xmlns: attribute of the same value, in which
\* case e's table maps urn:y to one of the prefixes so declared; no element
\* created before e is changed by e's start.
C9_Amended ==
  last.kind = "ElementStart" =>
    /\ \A key \in DeclKeys :
         LET u == last.attributes[key]
             same == { k \in DeclKeys : last.attributes[k] = u }
         IN /\ u \in DOMAIN Top.prefixes
            /\ Top.prefixes[u] \in { k[1] : k \in same }
            /\ same = {key} => Top.prefixes[u] = key[1]
    /\ SubSeq(stack, 1, Len(old.stack)) = old.stack

\* a child declared p for urn:y while the builder knew another prefix for
\* it: the child's table has p, its parent's has not
C9_Witness ==
  /\ last.kind = "ElementStart"
  /\ Len(stack) = 2
  /\ DeclKeys = { <<"p", Some(XMLNS_NS)>> }
  /\ Maps(prefixes, "urn:y", "r")
  /\ Maps(stack[2].prefixes, "urn:y", "p")
  /\ ~Maps(stack[1].prefixes, "urn:y", "p")

\* C10: define_prefix(prefix, ns) makes the persistent table map ns to
\* prefix and changes no other entry of it; the open elements, with their
\* children, are as before the call; an element started later has every
\* mapping of the persistent table for which its own xmlns: attributes
\* declare nothing.
C10_DefinePrefix ==
  /\ last.op = "define_prefix" =>
       /\ Maps(prefixes, last.ns[1], last.name)
       /\ DOMAIN prefixes = (DOMAIN old.prefixes) \cup {last.ns[1]}
       /\ \A u \in (DOMAIN old.prefixes) \ {last.ns[1]} :
            prefixes[u] = old.prefixes[u]
       /\ stack = old.stack
  /\ last.kind = "ElementStart" =>
       \A u \in (DOMAIN prefixes) \ Declared : Maps(Top.prefixes, u, prefixes[u])

\* an element started after define_prefix("r", "urn:y") has urn:y -> r, the
\* element started before the call has not
C10_Witness ==
  /\ last.kind = "ElementStart"
  /\ Len(stack) = 2
  /\ Maps(prefixes, "urn:y", "r")
  /\ Maps(stack[2].prefixes, "urn:y", "r")
  /\ "urn:y" \notin DOMAIN stack[1].prefixes

\* the kinds of the events that carry content only
TextKinds == { "PI", "Characters", "CDATA", "Comment" }

\* the number of PI, text, CDATA and comment nodes in a sequence of nodes,
\* and in a sequence of elements, at any depth
RECURSIVE ContentNodes(_)
ContentNodes(nodes) ==
  IF nodes = << >> THEN 0
  ELSE (IF nodes[1].kind = "ElementNode"
        THEN ContentNodes(nodes[1].elem[1].children)
        ELSE 1)
       + ContentNodes(Tail(nodes))

RECURSIVE ContentOf(_)
ContentOf(elems) ==
  IF elems = << >> THEN 0
  ELSE ContentNodes(elems[1].children) + ContentOf(Tail(elems))

\* C11: a PI, characters, CDATA or comment event processed while no element
\* is open returns Ok(None) and leaves stack, default_ns and prefixes as
\* they were; the trees under construction and the trees returned hold no
\* more content nodes than there were such events while an element was open.
C11_ContentOutsideDropped ==
  /\ (last.kind \in TextKinds /\ old.stack = << >>) =>
       /\ ret = OkNone
       /\ stack = old.stack
       /\ default_ns = old.default_ns
       /\ prefixes = old.prefixes
  /\ ContentOf(stack) + ContentOf(returned) <= nkept

\* a root was returned after a content event that arrived outside any
\* element, and holds no content node
C11_Witness ==
  /\ ntext = 1
  /\ nkept = 0
  /\ last.kind = "ElementEnd"
  /\ ret.tag = "OkSome"
  /\ ContentOf(returned) = 0

\* an element without its namespace resolution: name, namespace, attributes
\* and the children, element children likewise
RECURSIVE Shape(_)
RECURSIVE ShapeNodes(_)
Shape(e) ==
  [name |-> e.name, ns |-> e.ns, attributes |-> e.attributes,
   children |-> ShapeNodes(e.children)]
ShapeNodes(nodes) ==
  IF nodes = << >> THEN << >>
  ELSE << IF nodes[1].kind = "ElementNode"
          THEN [nodes[1] EXCEPT !.elem = << Shape(nodes[1].elem[1]) >>]
          ELSE nodes[1] >>
       \o ShapeNodes(Tail(nodes))

\* C12: while the events are a prefix of a well-balanced sequence, the open
\* elements are those of the starts not yet ended, and the children of each
\* are the nodes of the events seen directly inside it, in event order, one
\* node per event; the root returned at the end of the sequence is the tree
\* the events describe.
C12_TreeMirrorsEvents ==
  /\ wb.phase = "prefix" =>
       /\ Len(stack) = Len(expect)
       /\ \A i \in 1..Len(stack) : Shape(stack[i]) = expect[i]
  /\ (wb.phase = "complete" /\ ret.tag = "OkSome") =>
       /\ Len(expect) = 1
       /\ Shape(ret.elem[1]) = expect[1]

\* [start a, start b, end b, end a] returned a with the single child b,
\* which has no children
C12_Witness ==
  /\ wb.phase = "complete"
  /\ ret.tag = "OkSome"
  /\ ret.elem[1].name = "a"
  /\ Len(ret.elem[1].children) = 1
  /\ ret.elem[1].children[1].kind = "ElementNode"
  /\ ret.elem[1].children[1].elem[1].name = "b"
  /\ ret.elem[1].children[1].elem[1].children = << >>

\* sequence a is an initial part of sequence b
IsPrefix(a, b) == Len(a) <= Len(b) /\ SubSeq(b, 1, Len(a)) = a

\* C13: no call changes an element that is attached or returned.  In every
\* step the roots returned so far stay as they are, the children each open
\* element already has stay as they are, in place, whatever is appended
\* after them; an element is attached, or returned, exactly as it was on the
\* open-node stack.
C13_AttachedNeverMutated ==
  [][ /\ IsPrefix(returned, returned')
      /\ \A i \in 1..Len(stack) :
           i <= Len(stack') => IsPrefix(stack[i].children, stack'[i].children)
      /\ (last'.kind = "ElementEnd" /\ ret' = OkNone /\ Len(stack) >= 2) =>
           stack'[Len(stack')].children =
             Append(stack[Len(stack) - 1].children,
                    [kind |-> "ElementNode", elem |-> << stack[Len(stack)] >>,
                     text |-> ""])
      /\ ret'.tag = "OkSome" =>
           (ret'.elem = << stack[1] >> /\ returned' = Append(returned, stack[1]))
    ]_vars

\* an element received a content node after a child element was attached
\* to it
C13_Witness ==
  /\ last.kind \in TextKinds
  /\ Len(stack) = 1
  /\ Len(stack[1].children) = 2
  /\ stack[1].children[1].kind = "ElementNode"
  /\ stack[1].children[1] = old.stack[1].children[1]

\* C14: once push_event has returned Err(ImproperNesting) while elements
\* were open, no later push_event returns one of those elements as a
\* completed root.
C14_NestingErrorIsTerminal ==
  [][ ret'.tag = "OkSome" => ~failed[1] ]_vars

\* C15 as stated: when push_event returns a completed root, the open-node
\* stack is empty and default_ns is what it was before the first start of
\* that root's document
C15_Original ==
  [][ ret'.tag = "OkSome" => (stack' = << >> /\ default_ns' = bases[1]) ]_vars

\* C15 amended: when push_event returns a completed root and set_default_ns
\* was not called between the root's start and its end, the open-node stack
\* is empty and default_ns is what it was before the root's start, so the
\* builder is in the state a builder of the same configuration starts the
\* next top-level element from.
C15_Amended ==
  [][ (ret'.tag = "OkSome" /\ ~stale[1]) =>
        (stack' = << >> /\ default_ns' = bases[1]) ]_vars

\* a second top-level element was completed by the same builder
C15_Witness ==
  /\ ret.tag = "OkSome"
  /\ Len(returned) = 2
  /\ returned[1].name = "a"
  /\ returned[2].name = "b"
  /\ stack = << >>

\* the step is an element end that mismatches the innermost open element
MismatchingEnd ==
  /\ last'.kind = "ElementEnd"
  /\ stack # << >>
  /\ (Top.name # last'.name \/ Top.ns # last'.ns)

\* C16 as stated: a mismatching end returns the error with exactly one entry
\* popped from each of the two stacks; the popped element is attached to no
\* element and is not returned
C16_Original ==
  [][ MismatchingEnd =>
        /\ ret' = ErrImproperNesting
        /\ stack' = SubSeq(stack, 1, Len(stack) - 1)
        /\ Len(default_ns') = Len(default_ns) - 1
        /\ IsPrefix(default_ns', default_ns)
        /\ returned' = returned ]_vars

\* C16 amended: a mismatching end returns the error with exactly one element
\* popped from the open-node stack and one entry popped from the
\* default-namespace stack, or none if that stack was empty; the popped
\* element is attached to no element and is not returned: the other open
\* elements and the returned roots are as before.
C16_Amended ==
  [][ MismatchingEnd =>
        /\ ret' = ErrImproperNesting
        /\ stack' = SubSeq(stack, 1, Len(stack) - 1)
        /\ Len(default_ns') =
             (IF default_ns = << >> THEN 0 ELSE Len(default_ns) - 1)
        /\ IsPrefix(default_ns', default_ns)
        /\ returned' = returned ]_vars

\* a mismatching end dropped the inner of two open elements and the entry
\* of its scope; its parent has no child
C16_Witness ==
  /\ last.kind = "ElementEnd"
  /\ ret = ErrImproperNesting
  /\ Len(old.stack) = 2
  /\ old.default_ns = << Some("urn:x") >>
  /\ default_ns = << >>
  /\ stack = << old.stack[1] >>
  /\ stack[1].children = << >>

\* C17: set_default_ns(ns) leaves default_ns with the single entry Some(ns),
\* whatever it held, and leaves stack and prefixes as they were.
C17_SetDefaultNsReplacesStack ==
  last.op = "set_default_ns" =>
    /\ Len(default_ns) = 1
    /\ default_ns[1] = last.ns
    /\ stack = old.stack
    /\ prefixes = old.prefixes

\* set_default_ns was called with two elements open and two entries on
\* default_ns
C17_Witness ==
  /\ last.op = "set_default_ns"
  /\ Len(old.default_ns) = 2
  /\ Len(stack) = 2
  /\ default_ns = << Some("urn:d") >>

\* C18: the persistent prefix table starts as the two seeded bindings and
\* changes only through define_prefix: push_event, whatever the event and
\* its attributes, and set_default_ns leave it as it was, and
\* define_prefix(prefix, ns) changes the entry of ns alone; a table that
\* holds no prefix given to define_prefix is the seeded one.
C18_PrefixesOnlyByDefinePrefix ==
  /\ last.op = "new" =>
       prefixes = (XML_NS :> "xml") @@ (XMLNS_NS :> "xmlns")
  /\ last.op \in {"push_event", "set_default_ns"} => prefixes = old.prefixes
  /\ last.op = "define_prefix" =>
       prefixes = [u \in (DOMAIN old.prefixes) \cup {last.ns[1]} |->
                     IF u = last.ns[1] THEN last.name ELSE old.prefixes[u]]
  /\ (\A u \in DOMAIN prefixes : prefixes[u] \notin ConfigPrefixes) =>
       prefixes = (XML_NS :> "xml") @@ (XMLNS_NS :> "xmlns")

\* an element start that declared a prefix for urn:y left the persistent
\* table without one
C18_Witness ==
  /\ last.kind = "ElementStart"
  /\ DeclKeys # {}
  /\ Maps(Top.prefixes, "urn:y", "p")
  /\ prefixes = (XML_NS :> "xml") @@ (XMLNS_NS :> "xmlns")

\* the step is an element end that matches the innermost open element
MatchingEnd ==
  /\ last'.kind = "ElementEnd"
  /\ stack # << >>
  /\ Top.name = last'.name
  /\ Top.ns = last'.ns

\* C19: default-namespace scoping is lexical.  When an element's matching
\* end is processed and set_default_ns was not called since its start,
\* default_ns is again what it was just before the element's start,
\* whatever was declared on the element and inside it, also when default_ns
\* was empty at the start.
C19_LexicalDefaultNs ==
  [][ (MatchingEnd /\ ~stale[Len(stack)]) =>
        default_ns' = bases[Len(stack)] ]_vars

\* an element started on an empty default_ns was closed after a nested
\* element that declared xmlns, and default_ns is empty again
C19_Witness ==
  /\ last.kind = "ElementEnd"
  /\ ret.tag = "OkSome"
  /\ wb.phase = "complete"
  /\ nconfig = 0
  /\ default_ns = << >>
  /\ ret.elem[1].default_ns = None
  /\ Len(ret.elem[1].children) = 1
  /\ ret.elem[1].children[1].kind = "ElementNode"
  /\ ret.elem[1].children[1].elem[1].default_ns = Some("urn:x")

\* the outcome of the last element start had its attributes been scanned in
\* the given order
StartOutcome(order) ==
  ScanAttributes([default_ns |-> InheritDefault(old.default_ns),
                  prefixes |-> SnapshotPrefixes(old.stack, old.prefixes)],
                 last.attributes, order)

\* C20: the outcome of an element start does not depend on the order in
\* which its attributes are scanned: under every scan order the element's
\* default_ns, its prefix table and the builder's default_ns are the ones
\* the start produced.
C20_ScanOrderIndependent ==
  last.kind = "ElementStart" =>
    \A order \in Orders(DOMAIN last.attributes) :
      /\ default_ns = StartOutcome(order).default_ns
      /\ Top.default_ns = LastOrNone(StartOutcome(order).default_ns)
      /\ Top.prefixes = StartOutcome(order).prefixes

====
